---- MODULE Spec2Model ----
(***************************************************************************)
(* The two chat applications of the repository as one state machine.       *)
(*   variant "app"   : src/app.py   (history kept in the browser session)  *)
(*   variant "app_1" : src/app_1.py (history mirrored to a MongoDB         *)
(*                     collection and reloaded at session start)           *)
(* A text is a sequence of characters.  A script run of a session is cut   *)
(* at its blocking external calls (store read, store insert, completion    *)
(* request); the code between two calls is local to the session and runs   *)
(* inside the action of the call that precedes it.                         *)
(***************************************************************************)
EXTENDS Integers, Sequences, FiniteSets, TLC

(* ------------------------------ bounds -------------------------------- *)
MaxTurns == 12
MaxTurnsMulti == 3
MaxTurnsRehydrate == 2
MaxFaults == 2
MaxFaultsMulti == 1
MaxFaultsRehydrate == 2
MaxStored == 25

(* ------------------------- program constants -------------------------- *)
MAX_MESSAGES == 20
MAX_INPUT_LENGTH == 2000

Variants == {"app", "app_1"}
Sessions == {1, 2}
Solo == {1}

SYSTEM_PROMPT(v) ==
    IF v = "app"
    THEN <<"You are a medical assistant chatbot for educational purposes only.">>
    ELSE <<"You are a helpful assistant.">>

INPUT_TOO_LONG == "Input too long. Please shorten your message."

(* ------------------------------- texts -------------------------------- *)
Whitespace == {" ", "\t", "\n"}

Digit == <<"0", "1", "2", "3", "4", "5", "6", "7", "8", "9">>
Digits(n) == <<Digit[(n \div 10) + 1], Digit[(n % 10) + 1]>>

RECURSIVE lstrip(_)
lstrip(t) ==
    IF Len(t) > 0 /\ t[1] \in Whitespace THEN lstrip(Tail(t)) ELSE t

RECURSIVE rstrip(_)
rstrip(t) ==
    IF Len(t) > 0 /\ t[Len(t)] \in Whitespace
    THEN rstrip(SubSeq(t, 1, Len(t) - 1))
    ELSE t

\* str.strip()
strip(t) == rstrip(lstrip(t))

\* What a session's user types in its k-th accepted turn, and an over-long
\* submission of MAX_INPUT_LENGTH + 1 characters.
Question(s, k) == <<"q">> \o Digits(s) \o Digits(k)
LongInput == [i \in 1..(MAX_INPUT_LENGTH + 1) |-> "x"]
UserInputs(s, k) == {Question(s, k), LongInput}

\* The session a text of the model was typed in or generated for.
DigitValue(c) == (CHOOSE i \in 1..10 : Digit[i] = c) - 1
OwnerOf(t) ==
    LET q == IF t[1] = "r" THEN Tail(t) ELSE t
    IN  10 * DigitValue(q[2]) + DigitValue(q[3])

(* ------------------------------ messages ------------------------------ *)
Message(role, content) == [role |-> role, content |-> content]

build_messages_no_system(v, messages) == messages

build_messages(v, messages) ==
    <<Message("system", SYSTEM_PROMPT(v))>> \o messages

trim_history_off_by_one(messages) ==
    IF Len(messages) > MAX_MESSAGES
    THEN SubSeq(messages, Len(messages) - MAX_MESSAGES, Len(messages))
    ELSE messages

trim_history(messages) ==
    IF Len(messages) > MAX_MESSAGES
    THEN SubSeq(messages, Len(messages) - MAX_MESSAGES + 1, Len(messages))
    ELSE messages

InputTooLongOffByOne(text) == Len(text) > MAX_INPUT_LENGTH + 1

InputTooLong(text) == Len(text) > MAX_INPUT_LENGTH

(* --------------------------- message store ---------------------------- *)
None == <<>>
Some(x) == <<x>>

Document(sid, role, content, token_usage, created_at) ==
    [session_id |-> sid, role |-> role, content |-> content,
     token_usage |-> token_usage, created_at |-> created_at]

insert_one(coll, doc) == Append(coll, doc)

FindAll(coll, sid) == coll

\* conversations_collection.find({"session_id": sid})
Find(coll, sid) == SelectSeq(coll, LAMBDA d : d.session_id = sid)

RECURSIVE InsertSorted(_, _)
InsertSorted(sorted, d) ==
    IF Len(sorted) = 0 THEN <<d>>
    ELSE IF sorted[Len(sorted)].created_at <= d.created_at
         THEN Append(sorted, d)
         ELSE Append(InsertSorted(SubSeq(sorted, 1, Len(sorted) - 1), d),
                     sorted[Len(sorted)])

RECURSIVE SortAscending(_)
SortAscending(docs) ==
    IF Len(docs) = 0 THEN <<>>
    ELSE InsertSorted(SortAscending(SubSeq(docs, 1, Len(docs) - 1)),
                      docs[Len(docs)])

Unsorted(docs) == docs

\* .sort("created_at", 1)
SortByCreatedAt(docs) == SortAscending(docs)

\* the list comprehension of the session start
LoadMessages(coll, sid) ==
    LET stored_messages == SortByCreatedAt(Find(coll, sid))
    IN  [i \in 1..Len(stored_messages) |->
            Message(stored_messages[i].role, stored_messages[i].content)]

(* ------------------------ completion provider ------------------------- *)
FailureKinds == {"RateLimitError", "Timeout", "Exception"}

Outcome(kind, content, total_tokens) ==
    [kind |-> kind, content |-> content, total_tokens |-> total_tokens]

NoOutcome == Outcome("none", <<>>, 0)

\* What openai.ChatCompletion.create may do with a request: answer the last
\* message (bare, padded with whitespace, empty, or whitespace only), or raise.
Answer(request) == <<"r">> \o request[Len(request)].content

ProviderOutcomes(request) ==
    LET tokens == 10 * Len(request)
    IN  { Outcome("ok", Answer(request), tokens),
          Outcome("ok", <<" ">> \o Answer(request) \o <<"\n", " ">>, tokens),
          Outcome("ok", <<>>, tokens),
          Outcome("ok", <<" ", "\n">>, tokens) }
        \cup { Outcome(k, <<>>, 0) : k \in FailureKinds }

Nominal(o) == o.kind = "ok" /\ Len(strip(o.content)) > 0

ErrorText(v, kind) ==
    CASE kind = "RateLimitError" ->
           IF v = "app"
           THEN "Too many requests. Please wait a moment and try again."
           ELSE "Too many requests. Please try again shortly."
      [] kind = "Timeout" -> "Request timed out. Please try again."
      [] OTHER -> "AI service temporarily unavailable."

Result(is_none, reply, tokens, errors) ==
    [is_none |-> is_none, reply |-> reply, tokens |-> tokens, errors |-> errors]

generate_response_generic_errors(v, o) ==
    IF o.kind = "ok"
    THEN Result(FALSE, strip(o.content), o.total_tokens, <<>>)
    ELSE Result(TRUE, <<>>, 0, <<ErrorText(v, "Exception")>>)

\* generate_ai_response / generate_response, given what the provider did
generate_response(v, o) ==
    IF o.kind = "ok"
    THEN Result(FALSE, strip(o.content), o.total_tokens, <<>>)
    ELSE Result(TRUE, <<>>, 0, <<ErrorText(v, o.kind)>>)

\* Python truth value of the returned reply: None and "" are false
Truthy(res) == ~res.is_none /\ Len(res.reply) > 0

(* ------------------------------- state -------------------------------- *)
VARIABLES
    variant,         \* which of the two applications is deployed
    session_state,   \* per browser session: keys present, session_id, messages
    pc,              \* where a session's script run is blocked
    reply,           \* local of the script run: reply awaiting its insert
    tokens,          \* local of the script run: its token usage
    store,           \* the conversations collection, in insertion order
    clock,           \* datetime.utcnow()
    nextUuid,        \* uuid4 never repeats
    run,             \* log of the session's current or last script run
    turns,           \* accepted submissions per session
    faults           \* provider and store failures and blank replies so far

vars == <<variant, session_state, pc, reply, tokens, store, clock, nextUuid,
          run, turns, faults>>

NewRun(kind, input, before) ==
    [kind |-> kind, input |-> input, before |-> before, rejected |-> FALSE,
     errors |-> <<>>, calls |-> 0, request |-> <<>>, outcome |-> NoOutcome,
     inserts |-> 0, storeFailed |-> FALSE, trimmed |-> FALSE]

NoSession == [keys |-> {}, session_id |-> 0, messages |-> <<>>]

StoreOutcomes == {"ok", "down"}

Allowed(nominal, maxFaults) == nominal \/ faults < maxFaults
Count(nominal) == IF nominal THEN faults ELSE faults + 1

(* ------------------------------ actions ------------------------------- *)

\* maxTurns and maxFaults cap a behaviour's accepted submissions per session
\* and its failures; they are the bounds of the specification that uses the
\* action.
\* Session management at the top of the script, in a run without a submission:
\* app.py 73-74, app_1.py 91-105.
SessionManagement(s, maxFaults) ==
    /\ "messages" \notin session_state[s].keys
    /\ pc[s] = "idle"
    /\ \E db \in (IF variant = "app" THEN {"ok"} ELSE StoreOutcomes) :
        LET fresh == variant = "app_1" /\ "session_id" \notin session_state[s].keys
            sid == IF fresh THEN nextUuid ELSE session_state[s].session_id
            keys == IF variant = "app_1"
                    THEN session_state[s].keys \cup {"session_id"}
                    ELSE session_state[s].keys
            loaded == IF variant = "app" THEN <<>> ELSE LoadMessages(store, sid)
        IN  /\ Allowed(db = "ok", maxFaults)
            /\ faults' = Count(db = "ok")
            /\ nextUuid' = IF fresh THEN nextUuid + 1 ELSE nextUuid
            /\ session_state' = [session_state EXCEPT ![s] =
                   IF db = "ok"
                   THEN [keys |-> keys \cup {"messages"}, session_id |-> sid,
                         messages |-> loaded]
                   ELSE [keys |-> keys, session_id |-> sid, messages |-> <<>>]]
            /\ run' = [run EXCEPT ![s] =
                   [NewRun("load", <<>>, <<>>) EXCEPT !.storeFailed = (db = "down")]]
    /\ UNCHANGED <<variant, pc, reply, tokens, store, clock, turns>>

\* A submission: the length check, the append of the user message and, in
\* app_1, its insert.  app.py 148-160, app_1.py 183-195.
UserInput(s, maxTurns, maxFaults) ==
    /\ "messages" \in session_state[s].keys
    /\ pc[s] = "idle"
    /\ turns[s] < maxTurns
    /\ \E user_input \in UserInputs(s, turns[s] + 1),
          db \in (IF variant = "app" THEN {"ok"} ELSE StoreOutcomes) :
        LET before == session_state[s].messages
            r0 == NewRun("turn", user_input, before)
        IN  IF InputTooLong(user_input)
            THEN /\ db = "ok"
                 /\ run' = [run EXCEPT ![s] =
                        [r0 EXCEPT !.rejected = TRUE, !.errors = <<INPUT_TOO_LONG>>]]
                 /\ UNCHANGED <<session_state, pc, store, clock, turns, faults>>
            ELSE /\ Allowed(db = "ok", maxFaults)
                 /\ faults' = Count(db = "ok")
                 /\ turns' = [turns EXCEPT ![s] = @ + 1]
                 /\ session_state' = [session_state EXCEPT ![s].messages =
                        Append(before, Message("user", user_input))]
                 /\ IF variant = "app"
                    THEN /\ pc' = [pc EXCEPT ![s] = "call"]
                         /\ run' = [run EXCEPT ![s] = r0]
                         /\ UNCHANGED <<store, clock>>
                    ELSE IF db = "ok"
                    THEN /\ store' = insert_one(store,
                              Document(session_state[s].session_id, "user",
                                       user_input, None, clock))
                         /\ clock' = clock + 1
                         /\ pc' = [pc EXCEPT ![s] = "call"]
                         /\ run' = [run EXCEPT ![s] =
                                [r0 EXCEPT !.inserts = 1]]
                    ELSE /\ run' = [run EXCEPT ![s] =
                                [r0 EXCEPT !.storeFailed = TRUE]]
                         /\ UNCHANGED <<store, clock, pc>>
    /\ UNCHANGED <<variant, reply, tokens, nextUuid>>

\* The completion request and what follows it up to the next blocking call or
\* the end of the script.  app.py 162-172, app_1.py 197-203 and 208.
Generate(s, maxFaults) ==
    /\ pc[s] = "call"
    /\ LET request == build_messages(variant, session_state[s].messages)
       IN \E o \in ProviderOutcomes(request) :
           LET res == generate_response(variant, o)
               r1 == [run[s] EXCEPT !.calls = @ + 1, !.request = request,
                         !.outcome = o, !.errors = @ \o res.errors]
               appended == Append(session_state[s].messages,
                                  Message("assistant", res.reply))
           IN  /\ Allowed(Nominal(o), maxFaults)
               /\ faults' = Count(Nominal(o))
               /\ IF Truthy(res)
                  THEN IF variant = "app"
                       THEN /\ session_state' = [session_state EXCEPT
                                   ![s].messages = trim_history(appended)]
                            /\ pc' = [pc EXCEPT ![s] = "idle"]
                            /\ run' = [run EXCEPT ![s] =
                                   [r1 EXCEPT !.trimmed = TRUE]]
                            /\ UNCHANGED <<reply, tokens>>
                       ELSE /\ session_state' = [session_state EXCEPT
                                   ![s].messages = appended]
                            /\ pc' = [pc EXCEPT ![s] = "save_reply"]
                            /\ reply' = [reply EXCEPT ![s] = res.reply]
                            /\ tokens' = [tokens EXCEPT ![s] = res.tokens]
                            /\ run' = [run EXCEPT ![s] = r1]
                  ELSE /\ session_state' = [session_state EXCEPT
                              ![s].messages = trim_history(@)]
                       /\ pc' = [pc EXCEPT ![s] = "idle"]
                       /\ run' = [run EXCEPT ![s] =
                              [r1 EXCEPT !.trimmed = TRUE]]
                       /\ UNCHANGED <<reply, tokens>>
    /\ UNCHANGED <<variant, store, clock, nextUuid, turns>>

\* app_1.py 204-208: the insert of the reply, then the trim that ends the turn.
SaveReply(s, maxFaults) ==
    /\ pc[s] = "save_reply"
    /\ \E db \in StoreOutcomes :
        /\ Allowed(db = "ok", maxFaults)
        /\ faults' = Count(db = "ok")
        /\ IF db = "ok"
           THEN /\ store' = insert_one(store,
                     Document(session_state[s].session_id, "assistant",
                              reply[s], Some(tokens[s]), clock))
                /\ clock' = clock + 1
                /\ session_state' = [session_state EXCEPT
                       ![s].messages = trim_history(@)]
                /\ run' = [run EXCEPT ![s] =
                       [@ EXCEPT !.inserts = @ + 1, !.trimmed = TRUE]]
           ELSE /\ run' = [run EXCEPT ![s] =
                       [@ EXCEPT !.storeFailed = TRUE]]
                /\ UNCHANGED <<store, clock, session_state>>
    /\ pc' = [pc EXCEPT ![s] = "idle"]
    /\ reply' = [reply EXCEPT ![s] = <<>>]
    /\ tokens' = [tokens EXCEPT ![s] = 0]
    /\ UNCHANGED <<variant, nextUuid, turns>>

(* --------------------------- specifications --------------------------- *)
InitCommon ==
    /\ pc = [s \in Sessions |-> "idle"]
    /\ reply = [s \in Sessions |-> <<>>]
    /\ tokens = [s \in Sessions |-> 0]
    /\ run = [s \in Sessions |-> NewRun("none", <<>>, <<>>)]
    /\ turns = [s \in Sessions |-> 0]
    /\ faults = 0

\* A fresh deployment: no browser session yet, an empty collection.
Init ==
    /\ InitCommon
    /\ variant \in Variants
    /\ session_state = [s \in Sessions |-> NoSession]
    /\ store = <<>>
    /\ clock = 1
    /\ nextUuid = 1

Next ==
    \E s \in Solo :
        \/ SessionManagement(s, MaxFaults)
        \/ UserInput(s, MaxTurns, MaxFaults)
        \/ Generate(s, MaxFaults)
        \/ SaveReply(s, MaxFaults)

Spec == Init /\ [][Next]_vars

\* Two browser sessions against the same collection; MaxTurnsMulti caps the
\* accepted submissions of both together.
OtherTurns(s) == turns[1] + turns[2] - turns[s]

NextMulti ==
    \E s \in Sessions :
        \/ SessionManagement(s, MaxFaultsMulti)
        \/ UserInput(s, MaxTurnsMulti - OtherTurns(s), MaxFaultsMulti)
        \/ Generate(s, MaxFaultsMulti)
        \/ SaveReply(s, MaxFaultsMulti)

SpecMulti == Init /\ [][NextMulti]_vars

\* A session whose id already has a stored history when its buffer is built
\* (uuid4 returned the id of an earlier session, whose documents outlive it):
\* up to MaxStored documents under the id of session 1, which the collection
\* holds in ascending or descending physical order after a document of
\* another id.
StoredRole(i) == IF i % 2 = 1 THEN "user" ELSE "assistant"
StoredDocument(i) ==
    Document(1, StoredRole(i), <<"h">> \o Digits(1) \o Digits(i),
             IF i % 2 = 1 THEN None ELSE Some(10 * i), i)
ForeignDocument == Document(0, "user", Question(0, 1), None, 0)
Preloaded(n, order) ==
    <<ForeignDocument>> \o
    [i \in 1..n |-> StoredDocument(IF order = "asc" THEN i ELSE n + 1 - i)]

InitRehydrate ==
    /\ InitCommon
    /\ variant = "app_1"
    /\ \E n \in 0..MaxStored, order \in {"asc", "desc"} :
        /\ store = Preloaded(n, order)
        /\ clock = n + 1
    /\ session_state = [s \in Sessions |->
           IF s = 1 THEN [keys |-> {"session_id"}, session_id |-> 1,
                          messages |-> <<>>]
           ELSE NoSession]
    /\ nextUuid = 2

NextRehydrate ==
    \E s \in Solo :
        \/ SessionManagement(s, MaxFaultsRehydrate)
        \/ UserInput(s, MaxTurnsRehydrate, MaxFaultsRehydrate)
        \/ Generate(s, MaxFaultsRehydrate)
        \/ SaveReply(s, MaxFaultsRehydrate)

SpecRehydrate == InitRehydrate /\ [][NextRehydrate]_vars

(* ------------------------------- claims ------------------------------- *)
IsSuffix(a, b) ==
    /\ Len(a) <= Len(b)
    /\ a = SubSeq(b, Len(b) - Len(a) + 1, Len(b))

LastN(n, seq) ==
    IF Len(seq) <= n THEN seq ELSE SubSeq(seq, Len(seq) - n + 1, Len(seq))

\* The stored history of a session id, as role and content, by rank of created_at.
HistoryOf(sid) ==
    LET D == {store[j] : j \in {k \in 1..Len(store) : store[k].session_id = sid}}
    IN  [i \in 1..Cardinality(D) |->
            LET d == CHOOSE d \in D :
                        Cardinality({e \in D : e.created_at < d.created_at}) = i - 1
            IN  Message(d.role, d.content)]

Messages(s) == session_state[s].messages
UserMessage(s) == Message("user", run[s].input)
TurnEnded(s) == pc[s] = "idle" /\ run[s].kind = "turn"

\* C1: in the state right after a trim_history() call the buffer holds at most
\* MAX_MESSAGES messages, whatever the turns before it were.
C1_TrimBound ==
    \A s \in Sessions :
        run[s].trimmed => Len(Messages(s)) <= MAX_MESSAGES

C1_Witness ==
    \E s \in Sessions :
        /\ run[s].trimmed
        /\ Len(run[s].before) >= MAX_MESSAGES
        /\ Len(Messages(s)) = MAX_MESSAGES
        /\ Messages(s) # run[s].before

\* C2: a submission of more than 2000 characters changes neither the buffer nor
\* the collection, starts no completion request and ends the turn.
C2_RejectLeavesNoTrace ==
    [][\A s \in Sessions :
          (run'[s] # run[s] /\ run'[s].kind = "turn"
              /\ Len(run'[s].input) > MAX_INPUT_LENGTH)
          => /\ session_state' = session_state
             /\ store' = store
             /\ pc'[s] = "idle"
             /\ run'[s].calls = 0
             /\ run'[s].inserts = 0]_vars

C2_Witness ==
    \E s \in Sessions :
        /\ TurnEnded(s)
        /\ Len(run[s].input) > MAX_INPUT_LENGTH
        /\ run[s].rejected
        /\ Len(Messages(s)) > 0
        /\ variant = "app_1"

\* C3: a turn whose completion request failed ends with the user's message as
\* the last buffer entry and no assistant message added, with exactly the one
\* error text of its failure kind shown, after exactly one request.
C3_ExpectedError(kind) ==
    IF kind = "RateLimitError"
    THEN (IF variant = "app"
          THEN "Too many requests. Please wait a moment and try again."
          ELSE "Too many requests. Please try again shortly.")
    ELSE IF kind = "Timeout" THEN "Request timed out. Please try again."
    ELSE "AI service temporarily unavailable."

C3_ProviderFailure ==
    \A s \in Sessions :
        (TurnEnded(s) /\ run[s].outcome.kind \in FailureKinds)
        => /\ Len(Messages(s)) >= 1
           /\ Messages(s)[Len(Messages(s))] = UserMessage(s)
           /\ IsSuffix(Messages(s), Append(run[s].before, UserMessage(s)))
           /\ run[s].errors = <<C3_ExpectedError(run[s].outcome.kind)>>
           /\ run[s].calls = 1

C3_Witness ==
    \E s \in Sessions :
        /\ TurnEnded(s)
        /\ run[s].outcome.kind = "Timeout"
        /\ Len(run[s].before) > 0
        /\ Len(run[s].errors) = 1

\* C4: after a turn whose completion request succeeded, the last buffer entry
\* is the assistant message carrying the reply and, in app_1, the reply is the
\* session's newest stored document, with its token usage.
C4_ReplyAppended ==
    \A s \in Sessions :
        (TurnEnded(s) /\ run[s].outcome.kind = "ok" /\ ~run[s].storeFailed)
        => LET reply_message ==
                   Message("assistant", strip(run[s].outcome.content))
           IN  /\ Len(Messages(s)) >= 1
               /\ Messages(s)[Len(Messages(s))] = reply_message
               /\ variant = "app_1" =>
                    /\ Len(store) >= 1
                    /\ store[Len(store)].session_id = session_state[s].session_id
                    /\ store[Len(store)].role = "assistant"
                    /\ store[Len(store)].content = reply_message.content
                    /\ store[Len(store)].token_usage =
                           Some(run[s].outcome.total_tokens)

\* C5: every turn whose input passed the length check ends with a
\* trim_history() call and with at most MAX_MESSAGES messages in the buffer.
C5_TurnEndsTrimmed ==
    \A s \in Sessions :
        (TurnEnded(s) /\ ~run[s].rejected)
        => /\ run[s].trimmed
           /\ Len(Messages(s)) <= MAX_MESSAGES

\* C6: build_messages() yields the system instruction followed by the buffer's
\* messages in order, one entry more than the buffer; the request sent in a
\* turn is that list for the buffer as it stood after the user's append; and
\* no buffer ever holds a message of role system.
C6_SystemPrompt ==
    IF variant = "app"
    THEN <<"You are a medical assistant chatbot for educational purposes only.">>
    ELSE <<"You are a helpful assistant.">>

C6_BuildMessages ==
    \A s \in Sessions :
        LET m == Messages(s)
            b == build_messages(variant, m)
            sent == run[s].request
        IN  /\ Len(b) = Len(m) + 1
            /\ b[1] = Message("system", C6_SystemPrompt)
            /\ \A i \in 1..Len(m) : b[i + 1] = m[i]
            /\ \A i \in 1..Len(m) : m[i].role # "system"
            /\ run[s].calls > 0 =>
                 /\ Len(sent) = Len(run[s].before) + 2
                 /\ sent[1] = Message("system", C6_SystemPrompt)
                 /\ SubSeq(sent, 2, Len(sent))
                        = Append(run[s].before, UserMessage(s))
                 /\ IsSuffix(Messages(s),
                             SubSeq(sent, 2, Len(sent))
                               \o (IF Messages(s)[Len(Messages(s))].role = "assistant"
                                   THEN <<Messages(s)[Len(Messages(s))]>>
                                   ELSE <<>>))

C6_Witness ==
    \E s \in Sessions :
        /\ run[s].calls = 1
        /\ Len(run[s].request) = MAX_MESSAGES + 2
        /\ run[s].request[1].role = "system"
        /\ pc[s] = "idle"

\* C7: a session started over a stored history gets exactly that history, in
\* ascending created_at order and untrimmed, as its buffer; once its first
\* accepted turn has completed (user and assistant appended and stored, then
\* trimmed) the buffer is the last MAX_MESSAGES entries of the loaded history
\* followed by the user message and the reply.
Completed(s) ==
    /\ TurnEnded(s)
    /\ run[s].outcome.kind = "ok"
    /\ Len(strip(run[s].outcome.content)) > 0
    /\ ~run[s].storeFailed

C7_Rehydrate ==
    \A s \in Solo :
        /\ (run[s].kind = "load" /\ "messages" \in session_state[s].keys)
           => Messages(s) = HistoryOf(session_state[s].session_id)
        /\ (Completed(s) /\ turns[s] = 1)
           => /\ Len(run[s].before) = Len(store) - 3
              /\ Messages(s)
                   = LastN(MAX_MESSAGES,
                           run[s].before \o
                           <<UserMessage(s),
                             Message("assistant", strip(run[s].outcome.content))>>)
              /\ Messages(s)
                   = LastN(MAX_MESSAGES, HistoryOf(session_state[s].session_id))

C7_Witness ==
    \E s \in Solo :
        /\ Completed(s)
        /\ turns[s] = 1
        /\ Len(run[s].before) = 25
        /\ Len(Messages(s)) = 20
        /\ store[2].created_at > store[3].created_at

\* C8: at the end of every turn of app_1 the buffer is a suffix of the stored
\* history of the session's id: what was appended was also inserted, in order.
C8_BufferMirrorsStore ==
    \A s \in Sessions :
        (variant = "app_1" /\ pc[s] = "idle"
            /\ "messages" \in session_state[s].keys)
        => IsSuffix(Messages(s), HistoryOf(session_state[s].session_id))

\* C9: with sessions interleaving, a buffer holds only texts typed in or
\* generated for its own session, and every stored document carries the id of
\* the session whose turn wrote it; ids differ between sessions.
C9_SessionIsolation ==
    /\ \A s \in Sessions :
          \A i \in 1..Len(Messages(s)) : OwnerOf(Messages(s)[i].content) = s
    /\ \A j \in 1..Len(store) :
          LET owner == OwnerOf(store[j].content)
          IN  /\ "session_id" \in session_state[owner].keys
              /\ store[j].session_id = session_state[owner].session_id
    /\ \A s1, s2 \in Sessions :
          ("session_id" \in session_state[s1].keys
              /\ "session_id" \in session_state[s2].keys
              /\ s1 # s2)
          => session_state[s1].session_id # session_state[s2].session_id

C9_Witness ==
    /\ Len(store) >= 4
    /\ store[1].session_id # store[2].session_id
    /\ store[3].session_id = store[2].session_id
    /\ store[4].session_id = store[1].session_id
    /\ \A s \in Sessions : pc[s] = "idle" /\ Len(Messages(s)) = 2

\* C10: a buffer starts every turn with at most MAX_MESSAGES messages, never
\* holds more than MAX_MESSAGES + 2, and a request has at most MAX_MESSAGES + 2
\* entries, the last one the turn's user message.
C10_Bounds ==
    \A s \in Sessions :
        /\ pc[s] = "idle" => Len(Messages(s)) <= MAX_MESSAGES
        /\ Len(Messages(s)) <= MAX_MESSAGES + 2
        /\ run[s].calls > 0 =>
             /\ Len(run[s].request) <= MAX_MESSAGES + 2
             /\ run[s].request[Len(run[s].request)] = UserMessage(s)

====
